---- MODULE Spec2Model ----
(***************************************************************************)
(* Growth/health simulation of the greenhouse plant                        *)
(* (src/INVERNADEROPRUEBA2.0.py: Planta, obtener_puntuacion_factor,        *)
(* simular_crecimiento).                                                   *)
(*                                                                         *)
(* The program computes with Python floats.  The model keeps every         *)
(* quantity on a fixed grid of integers:                                   *)
(*   days    in 1/100 day      (0.1 day = 10, 1 day = 100)                 *)
(*   salud   in 1/16 percent   (100 % = 1600, the death limit 0.1 % = 1.6) *)
(*   altura  in 1/10000 cm     (0.5 cm = 5000, 50 cm = 500000)             *)
(* A factor score is an exact fraction [n, d] with d > 0.  The readings of *)
(* Lecturas give scores that are multiples of 1/2, so that the health      *)
(* arithmetic is exact on its grid; a height increment that falls between  *)
(* two grid points is rounded down.                                        *)
(***************************************************************************)
EXTENDS Integers, Sequences, FiniteSets, TLC

VARIABLES planta, sensor_ranges, llamada, pasos, ensayo,
          config_json, cargado, formulario,
          lecturas_actuales, hilos, temporizadores, evento, notificaciones,
          sesion, reloj, irrigation_schedule, hilo_riego, llamadas_tk, riegos,
          comandos_bomba

vars == <<planta, sensor_ranges, llamada, pasos, ensayo,
          config_json, cargado, formulario,
          lecturas_actuales, hilos, temporizadores, evento, notificaciones,
          sesion, reloj, irrigation_schedule, hilo_riego, llamadas_tk, riegos,
          comandos_bomba>>

\* the state of the configuration: the file, whether load_config has run,
\* and the latest form handed to guardar_nuevos_rangos
vars_config == <<config_json, cargado, formulario>>

\* the state of the running application: the shared readings, what each
\* thread is doing, the pending actualizar_gui timers, the handler the main
\* thread completed last, and the alert list actualizar_gui derived last
vars_app == <<lecturas_actuales, hilos, temporizadores, evento, notificaciones>>

\* the state of the irrigation: which window is up (cliente_mqtt_gui exists
\* once show_main_app has run), the minute on the wall clock, the schedule,
\* the checker thread, the callbacks it asked the main loop to run, the
\* irrigations ejecutar_riego started, and the calls of controlar_bomba
vars_riego == <<sesion, reloj, irrigation_schedule, hilo_riego, llamadas_tk, riegos,
                comandos_bomba>>

-----------------------------------------------------------------------------
(* Units of the grid *)

\* edad_dias and dias_transcurridos: 1 day
UnDia == 100
\* salud: 1 percent
UnPorciento == 16
\* altura_cm: 1 cm
UnCm == 10000

-----------------------------------------------------------------------------
(* Bounds of the model *)

\* number of calls of simular_crecimiento in one run
MaxPasos == 2

\* largest bound of a range tried on obtener_puntuacion_factor
MaxValor == 4

\* number of times the form of the ranges is submitted in one run
MaxGuardados == 2

\* last minute the wall clock reaches in one run
MaxReloj == 3

\* largest number of entries of irrigation_schedule
MaxHorarios == 2

\* number of clicks on the pump buttons in one run
MaxComandos == 2

\* elapsed times (1/100 day) handed to simular_crecimiento: 0, one periodic
\* tick of 0.1 day, and manual advances of 1, 5.33, 20, 75 and 120 days
Dias == {0, 10, 100, 533, 2000, 7500, 12000}

\* an absent reading (dict.get gives None for a missing key as well)
None == <<>>

Factores == {"temperatura", "humedad_aire", "humedad_suelo", "luz"}

\* readings per factor: absent, outside the lethal range, in a tolerance
\* band, inside the ideal range
ValoresLectura ==
    [temperatura   |-> <<None, <<5>>, <<15>>, <<25>>>>,
     humedad_aire  |-> <<None, <<20>>, <<70>>>>,
     humedad_suelo |-> <<None, <<1000>>, <<500>>>>,
     luz           |-> <<None, <<900>>, <<500>>>>]

\* the readings maps tried: every reading of temperatura with the other three
\* factors all absent, all lethal or all ideal
Lecturas ==
    {[temperatura   |-> ValoresLectura.temperatura[i],
      humedad_aire  |-> ValoresLectura.humedad_aire[j],
      humedad_suelo |-> ValoresLectura.humedad_suelo[j],
      luz           |-> ValoresLectura.luz[j]] : i \in 1..4, j \in 1..3}

-----------------------------------------------------------------------------
(* Fractions: the float arithmetic of the scores, kept exact *)

RECURSIVE MCD(_, _)
MCD(a, b) == IF b = 0 THEN a ELSE MCD(b, a % b)

Abs(x) == IF x < 0 THEN -x ELSE x

\* the outcome of a float division by zero: Python raises ZeroDivisionError
ZeroDivisionError == [n |-> 0, d |-> 0]

\* n / d in lowest terms; the error when d is 0, which every later operation
\* hands on
Frac(n, d) ==
    IF d = 0 THEN ZeroDivisionError
    ELSE LET g == MCD(Abs(n), Abs(d)) IN [n |-> n \div g, d |-> d \div g]

SumaFrac(p, q) == Frac(p.n * q.d + q.n * p.d, p.d * q.d)

Max(a, b) == IF a >= b THEN a ELSE b
Min(a, b) == IF a <= b THEN a ELSE b

\* floor(a * b / c) for a, b >= 0 and c > 0, without forming a * b
MulDiv(a, b, c) == (a \div c) * b + ((a % c) * b) \div c

-----------------------------------------------------------------------------
(* Planta *)

Etapas == {"Semilla", "Brote", "Joven", "Madura", "Floracion",
           "Fructificacion", "Muerta"}

\* Planta.__init__ with the arguments every caller passes
Planta ==
    [etapa_crecimiento |-> "Semilla",
     edad_dias         |-> 0,
     altura_cm         |-> UnCm \div 2,
     salud             |-> 100 * UnPorciento,
     esta_muerta       |-> FALSE,
     altura_maxima_cm  |-> 50 * UnCm]

\* the built-in sensor_ranges
RangosPorDefecto ==
    [temperatura   |-> [ideal_min |-> 20,  ideal_max |-> 28,
                        letal_min |-> 10,  letal_max |-> 35],
     humedad_aire  |-> [ideal_min |-> 60,  ideal_max |-> 80,
                        letal_min |-> 30,  letal_max |-> 95],
     humedad_suelo |-> [ideal_min |-> 400, ideal_max |-> 700,
                        letal_min |-> 50,  letal_max |-> 950],
     luz           |-> [ideal_min |-> 200, ideal_max |-> 500,
                        letal_min |-> 50,  letal_max |-> 800]]

-----------------------------------------------------------------------------
(* obtener_puntuacion_factor *)

\* a score whose ideal range excludes its two bounds
obtener_puntuacion_factor_ideal_estricto(valor, ideal_min, ideal_max, letal_min, letal_max) ==
    IF valor = None THEN Frac(1, 2)
    ELSE LET v == valor[1] IN
         IF letal_min <= v /\ v <= letal_max
         THEN IF ideal_min < v /\ v < ideal_max THEN Frac(1, 1)
              ELSE IF v < ideal_min
                   THEN IF ideal_min = letal_min THEN Frac(0, 1)
                        ELSE Frac(v - letal_min, ideal_min - letal_min)
                   ELSE IF letal_max = ideal_max THEN Frac(0, 1)
                        ELSE Frac((letal_max - ideal_max) - (v - ideal_max),
                                  letal_max - ideal_max)
         ELSE Frac(0, 1)

\* a score whose lethal range has no upper bound
obtener_puntuacion_factor_sin_letal_max(valor, ideal_min, ideal_max, letal_min, letal_max) ==
    IF valor = None THEN Frac(1, 2)
    ELSE LET v == valor[1] IN
         IF letal_min <= v
         THEN IF ideal_min <= v /\ v <= ideal_max THEN Frac(1, 1)
              ELSE IF v < ideal_min
                   THEN IF ideal_min = letal_min THEN Frac(0, 1)
                        ELSE Frac(v - letal_min, ideal_min - letal_min)
                   ELSE IF letal_max = ideal_max THEN Frac(0, 1)
                        ELSE Frac((letal_max - ideal_max) - (v - ideal_max),
                                  letal_max - ideal_max)
         ELSE Frac(0, 1)

\* a score whose upper band rises with the value: the "1.0 -" is missing
obtener_puntuacion_factor_sin_complemento(valor, ideal_min, ideal_max, letal_min, letal_max) ==
    IF valor = None THEN Frac(1, 2)
    ELSE LET v == valor[1] IN
         IF letal_min <= v /\ v <= letal_max
         THEN IF ideal_min <= v /\ v <= ideal_max THEN Frac(1, 1)
              ELSE IF v < ideal_min
                   THEN IF ideal_min = letal_min THEN Frac(0, 1)
                        ELSE Frac(v - letal_min, ideal_min - letal_min)
                   ELSE IF letal_max = ideal_max THEN Frac(0, 1)
                        ELSE Frac(v - ideal_max, letal_max - ideal_max)
         ELSE Frac(0, 1)

\* a score whose lower band falls with the value: 1.0 at letal_min
obtener_puntuacion_factor_banda_invertida(valor, ideal_min, ideal_max, letal_min, letal_max) ==
    IF valor = None THEN Frac(1, 2)
    ELSE LET v == valor[1] IN
         IF letal_min <= v /\ v <= letal_max
         THEN IF ideal_min <= v /\ v <= ideal_max THEN Frac(1, 1)
              ELSE IF v < ideal_min
                   THEN IF ideal_min = letal_min THEN Frac(0, 1)
                        ELSE Frac(ideal_min - v, ideal_min - letal_min)
                   ELSE IF letal_max = ideal_max THEN Frac(0, 1)
                        ELSE Frac((letal_max - ideal_max) - (v - ideal_max),
                                  letal_max - ideal_max)
         ELSE Frac(0, 1)

\* a score that treats an absent reading as lethal
obtener_puntuacion_factor_ausente_letal(valor, ideal_min, ideal_max, letal_min, letal_max) ==
    IF valor = None THEN Frac(0, 1)
    ELSE LET v == valor[1] IN
         IF letal_min <= v /\ v <= letal_max
         THEN IF ideal_min <= v /\ v <= ideal_max THEN Frac(1, 1)
              ELSE IF v < ideal_min
                   THEN IF ideal_min = letal_min THEN Frac(0, 1)
                        ELSE Frac(v - letal_min, ideal_min - letal_min)
                   ELSE IF letal_max = ideal_max THEN Frac(0, 1)
                        ELSE Frac((letal_max - ideal_max) - (v - ideal_max),
                                  letal_max - ideal_max)
         ELSE Frac(0, 1)

\* a score that divides by the width of a band without looking at the lethal
\* range or at the width first
obtener_puntuacion_factor_sin_guardas(valor, ideal_min, ideal_max, letal_min, letal_max) ==
    IF valor = None THEN Frac(1, 2)
    ELSE LET v == valor[1] IN
         IF ideal_min <= v /\ v <= ideal_max THEN Frac(1, 1)
         ELSE IF v < ideal_min
              THEN Frac(v - letal_min, ideal_min - letal_min)
              ELSE Frac((letal_max - ideal_max) - (v - ideal_max),
                        letal_max - ideal_max)

\* a score that interpolates without looking at the lethal range first
obtener_puntuacion_factor_sin_letal(valor, ideal_min, ideal_max, letal_min, letal_max) ==
    IF valor = None THEN Frac(1, 2)
    ELSE LET v == valor[1] IN
         IF ideal_min <= v /\ v <= ideal_max THEN Frac(1, 1)
         ELSE IF v < ideal_min
              THEN IF ideal_min = letal_min THEN Frac(0, 1)
                   ELSE Frac(v - letal_min, ideal_min - letal_min)
              ELSE IF letal_max = ideal_max THEN Frac(0, 1)
                   ELSE Frac((letal_max - ideal_max) - (v - ideal_max),
                             letal_max - ideal_max)

obtener_puntuacion_factor(valor, ideal_min, ideal_max, letal_min, letal_max) ==
    IF valor = None THEN Frac(1, 2)
    ELSE LET v == valor[1] IN
         IF letal_min <= v /\ v <= letal_max
         THEN IF ideal_min <= v /\ v <= ideal_max THEN Frac(1, 1)
              ELSE IF v < ideal_min
                   THEN IF ideal_min = letal_min THEN Frac(0, 1)
                        ELSE Frac(v - letal_min, ideal_min - letal_min)
                   ELSE IF letal_max = ideal_max THEN Frac(0, 1)
                        ELSE Frac((letal_max - ideal_max) - (v - ideal_max),
                                  letal_max - ideal_max)
         ELSE Frac(0, 1)

PuntuacionDe(f, lecturas, rangos) ==
    obtener_puntuacion_factor(lecturas[f], rangos[f].ideal_min,
                              rangos[f].ideal_max, rangos[f].letal_min,
                              rangos[f].letal_max)

\* sum(puntuaciones_ambientales) / len(puntuaciones_ambientales)
puntuacion_ambiente_promedio(lecturas, rangos) ==
    LET s == SumaFrac(SumaFrac(PuntuacionDe("temperatura", lecturas, rangos),
                               PuntuacionDe("humedad_aire", lecturas, rangos)),
                      SumaFrac(PuntuacionDe("humedad_suelo", lecturas, rangos),
                               PuntuacionDe("luz", lecturas, rangos)))
    IN  Frac(s.n, s.d * 4)

-----------------------------------------------------------------------------
(* simular_crecimiento *)

sensibilidad_salud == 50

\* 0.4125 cm per day
tasa_crecimiento_base_cm_por_dia == 4125

\* a health law that is not centred on 0.5
SaludSumadaSinNeutro(salud, prom, dias) ==
    salud + (prom.n * sensibilidad_salud * UnPorciento * dias) \div (prom.d * UnDia)

\* salud + cambio_salud_por_dia * dias_transcurridos, before the clamp
SaludSumada(salud, prom, dias) ==
    salud + ((2 * prom.n - prom.d) * sensibilidad_salud * UnPorciento * dias)
                \div (2 * prom.d * UnDia)

\* tasa_crecimiento_actual, in 1/10000 cm per day
tasa_crecimiento_actual(prom, salud) ==
    Frac(tasa_crecimiento_base_cm_por_dia * prom.n * salud,
         prom.d * 100 * UnPorciento)

\* growth computed with the health the plant had before the step
AlturaCrecidaSaludVieja(p, prom, salud, dias) ==
    LET tasa == tasa_crecimiento_actual(prom, p.salud)
        suma == p.altura_cm + MulDiv(tasa.n, dias, tasa.d * UnDia)
    IN  Max(UnCm \div 2, Min(suma, p.altura_maxima_cm))

\* altura_cm + tasa_crecimiento_actual * dias_transcurridos, clamped
AlturaCrecida(p, prom, salud, dias) ==
    LET tasa == tasa_crecimiento_actual(prom, salud)
        suma == p.altura_cm + MulDiv(tasa.n, dias, tasa.d * UnDia)
    IN  Max(UnCm \div 2, Min(suma, p.altura_maxima_cm))

\* a cascade that moves the stage one place forward per call at most
EtapaActualizadaUnaPorPaso(edad, etapa) ==
    IF etapa = "Semilla" /\ edad >= 5 * UnDia THEN "Brote"
    ELSE IF etapa = "Brote" /\ edad >= 15 * UnDia THEN "Joven"
    ELSE IF etapa = "Joven" /\ edad >= 40 * UnDia THEN "Madura"
    ELSE IF etapa = "Madura" /\ edad >= 70 * UnDia THEN "Floracion"
    ELSE IF etapa = "Floracion" /\ edad >= 100 * UnDia THEN "Fructificacion"
    ELSE etapa

\* the if/elif cascade that updates etapa_crecimiento
EtapaActualizada(edad, etapa) ==
    IF edad >= 100 * UnDia /\ etapa # "Fructificacion" THEN "Fructificacion"
    ELSE IF edad >= 70 * UnDia /\ etapa # "Floracion" THEN "Floracion"
    ELSE IF edad >= 40 * UnDia /\ etapa # "Madura" THEN "Madura"
    ELSE IF edad >= 15 * UnDia /\ etapa # "Joven" THEN "Joven"
    ELSE IF edad >= 5 * UnDia /\ etapa # "Brote" THEN "Brote"
    ELSE etapa

\* a dead branch that forgets the floor of 0.2 cm
PasoMuertaSinSuelo(p, dias) ==
    [p EXCEPT !.altura_cm = p.altura_cm - (5 * UnCm * dias) \div (100 * UnDia)]

\* a dead branch reached after the age was added
PasoMuertaConEdad(p, dias) ==
    [p EXCEPT !.edad_dias = p.edad_dias + dias,
              !.altura_cm =
                  Max(UnCm \div 5, p.altura_cm - (5 * UnCm * dias) \div (100 * UnDia))]

\* a dead branch with the sign of the decay reversed
PasoMuertaCreciente(p, dias) ==
    [p EXCEPT !.altura_cm =
                  Max(UnCm \div 5, p.altura_cm + (5 * UnCm * dias) \div (100 * UnDia))]

\* the branch taken by a plant that is already dead
PasoMuerta(p, dias) ==
    [p EXCEPT !.altura_cm =
                  Max(UnCm \div 5, p.altura_cm - (5 * UnCm * dias) \div (100 * UnDia))]

\* a death branch that leaves the age of the plant as it was before the step
MorirSinEdad(p, edad) ==
    [p EXCEPT !.esta_muerta = TRUE,
              !.salud = 0,
              !.etapa_crecimiento = "Muerta",
              !.altura_cm = Max(UnCm \div 5, (p.altura_cm * 9) \div 10)]

\* a death branch that leaves the stage of the plant as it was
MorirSinEtapa(p, edad) ==
    [p EXCEPT !.edad_dias = edad,
              !.esta_muerta = TRUE,
              !.salud = 0,
              !.altura_cm = Max(UnCm \div 5, (p.altura_cm * 9) \div 10)]

\* the death branch: salud <= 0.1
Morir(p, edad) ==
    [p EXCEPT !.edad_dias = edad,
              !.esta_muerta = TRUE,
              !.salud = 0,
              !.etapa_crecimiento = "Muerta",
              !.altura_cm = Max(UnCm \div 5, (p.altura_cm * 9) \div 10)]

\* a step whose death check is salud <= 0
simular_crecimiento_umbral_cero(p, dias, lecturas, rangos) ==
    IF p.esta_muerta THEN PasoMuerta(p, dias)
    ELSE LET edad  == p.edad_dias + dias
             prom  == puntuacion_ambiente_promedio(lecturas, rangos)
             salud == Max(0, Min(100 * UnPorciento, SaludSumada(p.salud, prom, dias)))
         IN  IF salud <= 0
             THEN Morir(p, edad)
             ELSE [p EXCEPT !.edad_dias = edad,
                            !.salud = salud,
                            !.altura_cm = AlturaCrecida(p, prom, salud, dias),
                            !.etapa_crecimiento =
                                EtapaActualizada(edad, p.etapa_crecimiento)]

\* a step that derives death from the health in every call, dead plant or not
simular_crecimiento_muerte_derivada(p, dias, lecturas, rangos) ==
    LET edad  == p.edad_dias + dias
        prom  == puntuacion_ambiente_promedio(lecturas, rangos)
        salud == Max(0, Min(100 * UnPorciento, SaludSumada(p.salud, prom, dias)))
    IN  IF 10 * salud <= UnPorciento
        THEN Morir(p, edad)
        ELSE [p EXCEPT !.edad_dias = edad,
                       !.salud = salud,
                       !.esta_muerta = FALSE,
                       !.altura_cm = AlturaCrecida(p, prom, salud, dias),
                       !.etapa_crecimiento =
                           EtapaActualizada(edad, p.etapa_crecimiento)]

simular_crecimiento(p, dias, lecturas, rangos) ==
    IF p.esta_muerta THEN PasoMuerta(p, dias)
    ELSE LET edad  == p.edad_dias + dias
             prom  == puntuacion_ambiente_promedio(lecturas, rangos)
             salud == Max(0, Min(100 * UnPorciento, SaludSumada(p.salud, prom, dias)))
         IN  IF 10 * salud <= UnPorciento
             THEN Morir(p, edad)
             ELSE [p EXCEPT !.edad_dias = edad,
                            !.salud = salud,
                            !.altura_cm = AlturaCrecida(p, prom, salud, dias),
                            !.etapa_crecimiento =
                                EtapaActualizada(edad, p.etapa_crecimiento)]

-----------------------------------------------------------------------------
(* config.json: load_config, save_config, guardar_nuevos_rangos *)

\* letal_min <= ideal_min <= ideal_max <= letal_max
RangoOrdenado(r) ==
    r.letal_min <= r.ideal_min /\ r.ideal_min <= r.ideal_max /\ r.ideal_max <= r.letal_max

\* the sensors in the order of sensor_ranges.items(), which is the order of
\* sensor_entries
OrdenSensores == <<"temperatura", "humedad_aire", "humedad_suelo", "luz">>

\* config.json: whether the file exists, whether json.load accepts it, the
\* object it holds, and how many times save_config has written it
NoExiste == [existe |-> FALSE, json_valido |-> FALSE, objeto |-> [otra |-> 0],
             escrituras |-> 0]

\* a range written by an earlier, valid save
RangoGuardado == [ideal_min |-> 1, ideal_max |-> 2, letal_min |-> 0, letal_max |-> 3]

\* the files the program may find when it starts: none, one that is not
\* JSON, an object without "sensor_ranges", the file of an earlier save, a
\* file edited to hold one key of one sensor, and one edited to hold a whole
\* range
ArchivosConfig ==
    {NoExiste,
     [existe |-> TRUE, json_valido |-> FALSE, objeto |-> [otra |-> 0], escrituras |-> 0],
     [existe |-> TRUE, json_valido |-> TRUE, objeto |-> [otra |-> 0], escrituras |-> 0],
     [existe |-> TRUE, json_valido |-> TRUE, escrituras |-> 0,
      objeto |-> [sensor_ranges |-> [f \in Factores |-> RangoGuardado]]],
     [existe |-> TRUE, json_valido |-> TRUE, escrituras |-> 0,
      objeto |-> [sensor_ranges |-> [temperatura |-> [ideal_min |-> 40]]]],
     [existe |-> TRUE, json_valido |-> TRUE, escrituras |-> 0,
      objeto |-> [sensor_ranges |->
                    [luz |-> [ideal_min |-> 3, ideal_max |-> 2,
                              letal_min |-> 0, letal_max |-> 4]]]]}

\* dict.update: the keys of b overwrite or extend those of a
DictUpdate(a, b) ==
    [k \in (DOMAIN a) \cup (DOMAIN b) |-> IF k \in DOMAIN b THEN b[k] ELSE a[k]]

\* sensor_ranges after load_config
load_config(rangos, archivo) ==
    IF archivo.existe /\ archivo.json_valido /\ "sensor_ranges" \in DOMAIN archivo.objeto
    THEN [f \in DOMAIN rangos |->
            IF f \in DOMAIN archivo.objeto.sensor_ranges
            THEN DictUpdate(rangos[f], archivo.objeto.sensor_ranges[f])
            ELSE rangos[f]]
    ELSE rangos

\* config.json after save_config
save_config(rangos, archivo) ==
    [existe |-> TRUE, json_valido |-> TRUE, objeto |-> [sensor_ranges |-> rangos],
     escrituras |-> archivo.escrituras + 1]

\* the texts an entry of the form may hold, and the number float() makes of
\* each; float() raises ValueError on any other text
Numeros == [t \in {"0", "1", "2", "3", "4", "120", "-1"} |->
              CASE t = "0" -> 0 [] t = "1" -> 1 [] t = "2" -> 2
                [] t = "3" -> 3 [] t = "4" -> 4 [] t = "120" -> 120
                [] t = "-1" -> 0 - 1]

float(texto) ==
    IF texto \in DOMAIN Numeros THEN [ok |-> TRUE, v |-> Numeros[texto]]
    ELSE [ok |-> FALSE, v |-> 0]

\* the four entries of one sensor: an ordered range, a range that is not
\* ordered, and one with a text that is not a number
EntradasSensor ==
    {[ideal_min |-> "1", ideal_max |-> "2", letal_min |-> "0", letal_max |-> "3"],
     [ideal_min |-> "3", ideal_max |-> "2", letal_min |-> "0", letal_max |-> "4"],
     [ideal_min |-> "1", ideal_max |-> "x", letal_min |-> "0", letal_max |-> "3"]}

Entradas == [Factores -> EntradasSensor]

\* new_ranges[sensor_name] for one sensor, when the four float() succeed
RangoDeEntradas(e) == [k \in DOMAIN e |-> float(e[k]).v]

\* the body of the loop raises no ValueError for this sensor
EntradaAceptada(e) ==
    /\ \A k \in DOMAIN e : float(e[k]).ok
    /\ RangoOrdenado(RangoDeEntradas(e))

\* a save that commits each sensor as soon as it has validated it: the
\* sensors before the first rejected one are replaced
RECURSIVE guardar_nuevos_rangos_parcial(_, _, _)
guardar_nuevos_rangos_parcial(rangos, entradas, i) ==
    IF i > Len(OrdenSensores) THEN [rangos |-> rangos, guardado |-> TRUE]
    ELSE IF EntradaAceptada(entradas[OrdenSensores[i]])
         THEN guardar_nuevos_rangos_parcial(
                  [rangos EXCEPT ![OrdenSensores[i]] =
                       RangoDeEntradas(entradas[OrdenSensores[i]])],
                  entradas, i + 1)
         ELSE [rangos |-> rangos, guardado |-> FALSE]

\* guardar_nuevos_rangos from sensor i on: new_ranges is built sensor by
\* sensor, and sensor_ranges.update(new_ranges) runs after the loop only;
\* a ValueError leaves the loop with sensor_ranges as it was
RECURSIVE guardar_nuevos_rangos(_, _, _)
guardar_nuevos_rangos(rangos, entradas, i) ==
    IF i > Len(OrdenSensores)
    THEN [rangos |-> DictUpdate(rangos, [f \in Factores |-> RangoDeEntradas(entradas[f])]),
          guardado |-> TRUE]
    ELSE IF EntradaAceptada(entradas[OrdenSensores[i]])
         THEN [rangos |-> guardar_nuevos_rangos(rangos, entradas, i + 1).rangos,
               guardado |-> guardar_nuevos_rangos(rangos, entradas, i + 1).guardado]
         ELSE [rangos |-> rangos, guardado |-> FALSE]

\* formulario: how many times the form was submitted, and its entries the
\* last time
SinFormulario ==
    [n |-> 0,
     entradas |-> [f \in Factores |->
                     [ideal_min |-> "", ideal_max |-> "", letal_min |-> "", letal_max |-> ""]]]

-----------------------------------------------------------------------------
(* The threads of the application and the handlers that step the plant *)

\* the Tk main thread, and the network thread of the MQTT client
Hilos == {"tk", "mqtt"}

\* the global lecturas_actuales at import, which are the values the sliders
\* are created with and are set to by reiniciar_planta, and the values
\* actualizar_gui puts in the place of an absent reading
LecturasPorDefecto ==
    [temperatura |-> <<25>>, humedad_aire |-> <<60>>,
     humedad_suelo |-> <<500>>, luz |-> <<500>>]

\* the payloads the broker delivers: per topic an ideal value and one that
\* scores 0, which is outside the lethal range for temperatura and
\* humedad_suelo and on letal_min for humedad_aire
MensajesMqtt ==
    [temperatura |-> {5, 25}, humedad_aire |-> {30, 60}, humedad_suelo |-> {1000, 500}]

\* the texts typed in the entry "dias a avanzar"
TextosDias == {"120", "0", "-1", "x"}

\* a wiring in which the MQTT callback refreshes the window itself
HiloDeConRefrescoEnMqtt(manejador) ==
    CASE manejador = "_al_recibir_mensaje_gui" -> "mqtt"
      [] manejador = "actualizar_gui" -> "mqtt"
      [] OTHER -> "tk"

\* the thread that runs a handler: on_message callbacks run in the thread of
\* loop_start; after callbacks and button commands run in the main loop
HiloDe(manejador) ==
    CASE manejador = "_al_recibir_mensaje_gui" -> "mqtt"
      [] OTHER -> "tk"

\* a thread that is not inside simular_crecimiento
Ocioso ==
    [manejador |-> "ninguno", entrada |-> "", leida |-> Planta, dias |-> 0,
     lecturas |-> LecturasPorDefecto]

\* a thread inside simular_crecimiento: the handler that called it, the
\* text the handler was given, and the plant and readings the call has read
EnPaso(manejador, entrada, p, dias, lecturas) ==
    [manejador |-> manejador, entrada |-> entrada, leida |-> p, dias |-> dias,
     lecturas |-> lecturas]

\* actualizar_gui: an absent reading is replaced by its default
RellenarLecturas(lecturas) ==
    [f \in Factores |-> IF lecturas[f] = None THEN LecturasPorDefecto[f] ELSE lecturas[f]]

\* the notification of each factor, and the warning of a dead plant
AvisoDe ==
    [temperatura   |-> "Temperatura fuera de rango!",
     humedad_aire  |-> "Humedad del aire incorrecta!",
     humedad_suelo |-> "Humedad del suelo critica!",
     luz           |-> "Nivel de luz inadecuado!"]

AvisoDeMuerte == "Advertencia: La planta ha muerto!"

\* the two notices of the automatic irrigation
AvisoBombaOn  == "Riego automatico (ESP32): Humedad del suelo baja, bomba deberia estar ON."
AvisoBombaOff == "Riego automatico (ESP32): Humedad del suelo optima, bomba deberia estar OFF."

\* the notification of factor f, if its reading is present and outside the
\* lethal range
AvisoDeFactor(f, lecturas, rangos) ==
    IF lecturas[f] # None
       /\ (lecturas[f][1] < rangos[f].letal_min \/ lecturas[f][1] > rangos[f].letal_max)
    THEN <<AvisoDe[f]>>
    ELSE <<>>

\* the notice of the automatic irrigation, if it is on and the soil reading
\* and the pump disagree; the soil reading is present, actualizar_gui has
\* filled it
AvisoDeRiego(lecturas, rangos, riego_automatico_activo, bomba_activa) ==
    IF riego_automatico_activo
    THEN IF lecturas.humedad_suelo[1] < rangos.humedad_suelo.letal_min /\ ~bomba_activa
         THEN <<AvisoBombaOn>>
         ELSE IF lecturas.humedad_suelo[1] >= rangos.humedad_suelo.ideal_max /\ bomba_activa
              THEN <<AvisoBombaOff>>
              ELSE <<>>
    ELSE <<>>

\* an alert list with the alerts at the bounds of the lethal range too
ListaDeNotificacionesNoEstricta(lecturas, rangos, esta_muerta, riego_automatico_activo, bomba_activa) ==
    IF esta_muerta THEN <<AvisoDeMuerte>>
    ELSE LET aviso(f) ==
                 IF lecturas[f] # None
                    /\ (lecturas[f][1] <= rangos[f].letal_min
                        \/ lecturas[f][1] >= rangos[f].letal_max)
                 THEN <<AvisoDe[f]>>
                 ELSE <<>>
         IN  aviso("temperatura") \o aviso("humedad_aire") \o aviso("humedad_suelo")
                 \o aviso("luz")
                 \o AvisoDeRiego(lecturas, rangos, riego_automatico_activo, bomba_activa)

\* notificaciones at the end of actualizar_gui
ListaDeNotificaciones(lecturas, rangos, esta_muerta, riego_automatico_activo, bomba_activa) ==
    IF esta_muerta THEN <<AvisoDeMuerte>>
    ELSE AvisoDeFactor("temperatura", lecturas, rangos)
             \o AvisoDeFactor("humedad_aire", lecturas, rangos)
             \o AvisoDeFactor("humedad_suelo", lecturas, rangos)
             \o AvisoDeFactor("luz", lecturas, rangos)
             \o AvisoDeRiego(lecturas, rangos, riego_automatico_activo, bomba_activa)

\* evento: the handler the main thread completed last, and its entry
SinEvento == [manejador |-> "show_main_app", entrada |-> ""]

-----------------------------------------------------------------------------
(* Scheduled irrigation: the schedule file, the clock and the pump *)

\* now.strftime("%H:%M") for the minute the clock of the model shows
HorasDelReloj ==
    <<"00:00", "00:01", "00:02", "00:03", "00:04", "00:05", "00:06", "00:07",
      "00:08", "00:09">>

strftime(minuto) == HorasDelReloj[minuto + 1]

\* hour, minute = map(int, time_str.split(':')) for the texts of the model
HoraYMinuto ==
    [t \in {"00:01", "00:02", "0:02", "0:60"} |->
        CASE t = "00:01" -> [hour |-> 0, minute |-> 1]
          [] t = "00:02" -> [hour |-> 0, minute |-> 2]
          [] t = "0:02" -> [hour |-> 0, minute |-> 2]
          [] t = "0:60" -> [hour |-> 0, minute |-> 60]]

\* the minute after midnight a text HH:MM names
MinutoDe(time_str) == HoraYMinuto[time_str].hour * 60 + HoraYMinuto[time_str].minute

\* int(duration_str): the texts of Numeros are integers, and any other text
\* raises ValueError
int(texto) == float(texto)

\* texts typed into "Hora (HH:MM)" and "Duracion (minutos)"
TextosHora == {"00:02", "0:02", "0:60"}
TextosDuracion == {"1", "2", "0"}

\* one entry of irrigation_schedule, day "Todos los dias"; alta is the
\* minute the entry was added (-1: it came with irrigation_schedule.json)
\* and is not a key of the program's dict
Horario(time_str, duration, alta) ==
    [day |-> "Todos los dias", time |-> time_str, duration |-> duration, alta |-> alta]

\* irrigation_schedule.json as load_schedule finds it at import: absent or
\* empty, one entry, two entries with the same time, and an entry whose
\* time falls while the irrigation of the one before it is running
ArchivosHorario ==
    {<<>>,
     <<Horario("00:01", 1, 0 - 1)>>,
     <<Horario("00:01", 2, 0 - 1), Horario("00:01", 1, 0 - 1)>>,
     <<Horario("00:01", 2, 0 - 1), Horario("00:02", 1, 0 - 1)>>}

\* verificar_riego_programado before its first pass: last_check_minute is
\* -1 and schedule_duration is not yet bound
HiloRiegoInicial ==
    [pc |-> "sondeo", last_check_minute |-> 0 - 1, schedule_duration |-> 0,
     despierta |-> 0]

\* the indexes of the entries the for loop would match in this minute
Coinciden(horarios, minuto) ==
    {i \in 1..Len(horarios) :
        /\ horarios[i].day = "Todos los dias"
        /\ horarios[i].time = strftime(minuto)}

\* the thread has made its pass for this minute, or sleeps beyond it
HiloAlDia(hilo, minuto) ==
    \/ hilo.pc = "sondeo" /\ hilo.last_check_minute = minuto
    \/ hilo.pc = "durmiendo" /\ minuto < hilo.despierta

\* controlar_bomba(comando): publish on cliente_mqtt_gui, an attribute that
\* exists only once show_main_app has run; before that the call raises
\* AttributeError and publishes nothing
controlar_bomba(comandos, comando, ventana) ==
    Append(comandos, [comando |-> comando, cliente |-> ventana = "principal"])

\* the irrigation is not in use
RiegoEnReposo ==
    /\ reloj = 0
    /\ irrigation_schedule = <<>>
    /\ hilo_riego = HiloRiegoInicial
    /\ llamadas_tk = <<>>
    /\ riegos = <<>>
    /\ comandos_bomba = <<>>

-----------------------------------------------------------------------------
(* The engine driven by its callers *)

\* llamada: the arguments of the latest call and whether the plant was dead
\* when it was made
SinLlamada ==
    [hecha |-> FALSE, dias |-> 0, lecturas |-> [f \in Factores |-> None],
     estaba_muerta |-> FALSE]

\* ensayo: one evaluation of the scoring functions and its result
SinEnsayo ==
    [hecho |-> FALSE, factor |-> "ninguno", lecturas |-> [f \in Factores |-> None],
     puntuacion |-> Frac(0, 1)]

Init ==
    /\ planta = Planta
    /\ sensor_ranges = RangosPorDefecto
    /\ llamada = SinLlamada
    /\ pasos = 0
    /\ ensayo = SinEnsayo
    /\ config_json = NoExiste
    /\ cargado = TRUE
    /\ formulario = SinFormulario
    /\ lecturas_actuales = LecturasPorDefecto
    /\ hilos = [h \in Hilos |-> Ocioso]
    /\ temporizadores = 0
    /\ evento = SinEvento
    /\ notificaciones = <<>>
    /\ sesion = "login"
    /\ RiegoEnReposo

\* one call simular_crecimiento(planta, dias, lecturas); llamada records its
\* arguments
SimularCrecimiento ==
    \E dias \in Dias, lecturas \in Lecturas :
        /\ pasos < MaxPasos
        /\ pasos' = pasos + 1
        /\ planta' = simular_crecimiento(planta, dias, lecturas, sensor_ranges)
        /\ llamada' = [hecha |-> TRUE, dias |-> dias, lecturas |-> lecturas,
                        estaba_muerta |-> planta.esta_muerta]
        /\ UNCHANGED <<sensor_ranges, ensayo, vars_riego, vars_config, vars_app>>

Next == SimularCrecimiento

Spec == Init /\ [][Next]_vars

-----------------------------------------------------------------------------
(* The scoring functions on their own, over small ranges and readings *)

\* every choice of the four bounds of a range, ordered or not
RangosPrueba ==
    {[ideal_min |-> a, ideal_max |-> b, letal_min |-> c, letal_max |-> d] :
        a \in 0..MaxValor, b \in 0..MaxValor, c \in 0..MaxValor, d \in 0..MaxValor}

ValoresPrueba == {None} \cup {<<v>> : v \in (0 - 1)..(MaxValor + 1)}

\* any reading of temperatura, the other three factors as in Lecturas; and
\* the readings of Lecturas, for the built-in ranges
LecturasPrueba ==
    {[temperatura   |-> t,
      humedad_aire  |-> ValoresLectura.humedad_aire[j],
      humedad_suelo |-> ValoresLectura.humedad_suelo[j],
      luz           |-> ValoresLectura.luz[j]] : t \in ValoresPrueba, j \in 1..3}
    \cup Lecturas

InitPuntuacion ==
    /\ planta = Planta
    /\ sensor_ranges \in {[RangosPorDefecto EXCEPT !.temperatura = r] : r \in RangosPrueba}
                            \cup {RangosPorDefecto}
    /\ llamada = SinLlamada
    /\ pasos = 0
    /\ ensayo = SinEnsayo
    /\ config_json = NoExiste
    /\ cargado = TRUE
    /\ formulario = SinFormulario
    /\ lecturas_actuales = LecturasPorDefecto
    /\ hilos = [h \in Hilos |-> Ocioso]
    /\ temporizadores = 0
    /\ evento = SinEvento
    /\ notificaciones = <<>>
    /\ sesion = "login"
    /\ RiegoEnReposo

\* one call of obtener_puntuacion_factor, as simular_crecimiento makes it
Puntuar ==
    \E f \in Factores, l \in LecturasPrueba :
        /\ ~ensayo.hecho
        /\ ensayo' = [hecho |-> TRUE, factor |-> f, lecturas |-> l,
                       puntuacion |-> PuntuacionDe(f, l, sensor_ranges)]
        /\ UNCHANGED <<planta, sensor_ranges, llamada, pasos, vars_riego, vars_config, vars_app>>

\* the mean of the four scores, as simular_crecimiento computes it
Promediar ==
    \E l \in LecturasPrueba :
        /\ ~ensayo.hecho
        /\ ensayo' = [hecho |-> TRUE, factor |-> "todos", lecturas |-> l,
                       puntuacion |-> puntuacion_ambiente_promedio(l, sensor_ranges)]
        /\ UNCHANGED <<planta, sensor_ranges, llamada, pasos, vars_riego, vars_config, vars_app>>

NextPuntuacion == Puntuar \/ Promediar

SpecPuntuacion == InitPuntuacion /\ [][NextPuntuacion]_vars

-----------------------------------------------------------------------------
(* The configuration from the start of the program on *)

\* the module has been read up to the call of load_config: sensor_ranges
\* holds the built-in ranges and config.json is whatever the directory has
InitConfig ==
    /\ planta = Planta
    /\ sensor_ranges = RangosPorDefecto
    /\ llamada = SinLlamada
    /\ pasos = 0
    /\ ensayo = SinEnsayo
    /\ config_json \in ArchivosConfig
    /\ cargado = FALSE
    /\ formulario = SinFormulario
    /\ lecturas_actuales = LecturasPorDefecto
    /\ hilos = [h \in Hilos |-> Ocioso]
    /\ temporizadores = 0
    /\ evento = SinEvento
    /\ notificaciones = <<>>
    /\ sesion = "login"
    /\ RiegoEnReposo

\* the call load_config() at import
LoadConfig ==
    /\ ~cargado
    /\ cargado' = TRUE
    /\ sensor_ranges' = load_config(sensor_ranges, config_json)
    /\ UNCHANGED <<planta, llamada, pasos, ensayo, config_json, formulario, vars_riego, vars_app>>

\* the button "Guardar Rangos" with the entries of the form
GuardarNuevosRangos ==
    \E entradas \in Entradas :
        /\ cargado
        /\ formulario.n < MaxGuardados
        /\ formulario' = [n |-> formulario.n + 1, entradas |-> entradas]
        /\ sensor_ranges' = guardar_nuevos_rangos(sensor_ranges, entradas, 1).rangos
        /\ config_json' =
               IF guardar_nuevos_rangos(sensor_ranges, entradas, 1).guardado
               THEN save_config(guardar_nuevos_rangos(sensor_ranges, entradas, 1).rangos,
                                config_json)
               ELSE config_json
        /\ UNCHANGED <<planta, llamada, pasos, ensayo, cargado, vars_riego, vars_app>>

NextConfig == LoadConfig \/ GuardarNuevosRangos

SpecConfig == InitConfig /\ [][NextConfig]_vars

-----------------------------------------------------------------------------
(* The application after show_main_app: ticks, buttons and MQTT messages *)

\* show_main_app has returned: the MQTT thread runs, lecturas_actuales holds
\* the slider values and the first actualizar_gui is scheduled
InitApp ==
    /\ planta = Planta
    /\ sensor_ranges = RangosPorDefecto
    /\ llamada = SinLlamada
    /\ pasos = 0
    /\ ensayo = SinEnsayo
    /\ config_json = NoExiste
    /\ cargado = TRUE
    /\ formulario = SinFormulario
    /\ lecturas_actuales = LecturasPorDefecto
    /\ hilos = [h \in Hilos |-> Ocioso]
    /\ temporizadores = 1
    /\ evento = SinEvento
    /\ notificaciones = <<>>
    /\ sesion = "principal"
    /\ RiegoEnReposo

\* a pending actualizar_gui callback fires and enters its step of 0.1 day
ActualizarGui ==
    /\ hilos[HiloDe("actualizar_gui")] = Ocioso
    /\ temporizadores > 0
    /\ pasos < MaxPasos
    /\ temporizadores' = temporizadores - 1
    /\ pasos' = pasos + 1
    /\ hilos' = [hilos EXCEPT ![HiloDe("actualizar_gui")] =
                    EnPaso("actualizar_gui", "", planta, UnDia \div 10, lecturas_actuales)]
    /\ UNCHANGED <<planta, sensor_ranges, llamada, ensayo, vars_riego, vars_config,
                   lecturas_actuales, evento, notificaciones>>

\* a button "Avanzar" that steps the plant by any number entered
AvanzarDiasSimulacionSinFiltro ==
    \E texto \in TextosDias :
        /\ hilos[HiloDe("avanzar_dias_simulacion")] = Ocioso
        /\ IF float(texto).ok
           THEN /\ pasos < MaxPasos
                /\ pasos' = pasos + 1
                /\ hilos' = [hilos EXCEPT ![HiloDe("avanzar_dias_simulacion")] =
                                EnPaso("avanzar_dias_simulacion", texto, planta,
                                       float(texto).v * UnDia, lecturas_actuales)]
                /\ UNCHANGED evento
           ELSE /\ evento' = [manejador |-> "avanzar_dias_simulacion", entrada |-> texto]
                /\ UNCHANGED <<pasos, hilos>>
        /\ UNCHANGED <<planta, sensor_ranges, llamada, ensayo, vars_riego, vars_config,
                       lecturas_actuales, temporizadores, notificaciones>>

\* the button "Avanzar": a positive number enters the step; any other text
\* ends the handler at once
AvanzarDiasSimulacion ==
    \E texto \in TextosDias :
        /\ hilos[HiloDe("avanzar_dias_simulacion")] = Ocioso
        /\ IF float(texto).ok /\ float(texto).v > 0
           THEN /\ pasos < MaxPasos
                /\ pasos' = pasos + 1
                /\ hilos' = [hilos EXCEPT ![HiloDe("avanzar_dias_simulacion")] =
                                EnPaso("avanzar_dias_simulacion", texto, planta,
                                       float(texto).v * UnDia, lecturas_actuales)]
                /\ UNCHANGED evento
           ELSE /\ evento' = [manejador |-> "avanzar_dias_simulacion", entrada |-> texto]
                /\ UNCHANGED <<pasos, hilos>>
        /\ UNCHANGED <<planta, sensor_ranges, llamada, ensayo, vars_riego, vars_config,
                       lecturas_actuales, temporizadores, notificaciones>>

\* the button "Reiniciar Planta": a new Planta, the sliders and with them
\* lecturas_actuales back to their defaults, and then actualizar_gui(),
\* which enters its step of 0.1 day
ReiniciarPlanta ==
    /\ hilos[HiloDe("reiniciar_planta")] = Ocioso
    /\ pasos < MaxPasos
    /\ pasos' = pasos + 1
    /\ planta' = Planta
    /\ lecturas_actuales' = LecturasPorDefecto
    /\ hilos' = [hilos EXCEPT ![HiloDe("reiniciar_planta")] =
                    EnPaso("reiniciar_planta", "", Planta, UnDia \div 10, LecturasPorDefecto)]
    /\ UNCHANGED <<sensor_ranges, llamada, ensayo, vars_riego, vars_config, temporizadores, evento,
                   notificaciones>>

\* simular_crecimiento writes the plant, and the handler goes on to its end:
\* actualizar_gui fills the absent readings, derives the alert list from
\* the readings, the ranges and the plant, and schedules itself again; the
\* automatic irrigation and the pump are off, as __init__ leaves them
TerminarPaso ==
    \E h \in Hilos :
        /\ hilos[h] # Ocioso
        /\ planta' = simular_crecimiento(hilos[h].leida, hilos[h].dias,
                                         hilos[h].lecturas, sensor_ranges)
        /\ lecturas_actuales' = RellenarLecturas(lecturas_actuales)
        /\ notificaciones' =
               ListaDeNotificaciones(lecturas_actuales', sensor_ranges, planta'.esta_muerta,
                                     FALSE, FALSE)
        /\ temporizadores' = temporizadores + 1
        /\ evento' = [manejador |-> hilos[h].manejador, entrada |-> hilos[h].entrada]
        /\ hilos' = [hilos EXCEPT ![h] = Ocioso]
        /\ UNCHANGED <<sensor_ranges, llamada, pasos, ensayo, vars_riego, vars_config>>

\* _al_recibir_mensaje_gui with a sensor topic, in the MQTT thread
RecibirMensaje ==
    \E f \in DOMAIN MensajesMqtt :
        \E v \in MensajesMqtt[f] :
            /\ hilos[HiloDe("_al_recibir_mensaje_gui")] = Ocioso
            /\ lecturas_actuales' = [lecturas_actuales EXCEPT ![f] = <<v>>]
            /\ UNCHANGED <<planta, sensor_ranges, llamada, pasos, ensayo, vars_riego, vars_config,
                           hilos, temporizadores, evento, notificaciones>>

NextApp ==
    \/ ActualizarGui
    \/ AvanzarDiasSimulacion
    \/ ReiniciarPlanta
    \/ TerminarPaso
    \/ RecibirMensaje

SpecApp == InitApp /\ [][NextApp]_vars

-----------------------------------------------------------------------------
(* The application from its start: login, the checker thread of the        *)
(* scheduled irrigation, the callbacks it hands to the main loop, and the  *)
(* pump.  The clock counts minutes.  The thread polls at least twice a     *)
(* minute, and the main loop runs a callback that is due before the minute *)
(* is over: the clock moves on only when both have done their work.        *)

\* __init__ has returned: load_schedule has read the file, the checker
\* thread is started, the login window is shown, cliente_mqtt_gui does not
\* exist
InitRiego ==
    /\ planta = Planta
    /\ sensor_ranges = RangosPorDefecto
    /\ llamada = SinLlamada
    /\ pasos = 0
    /\ ensayo = SinEnsayo
    /\ config_json = NoExiste
    /\ cargado = TRUE
    /\ formulario = SinFormulario
    /\ lecturas_actuales = LecturasPorDefecto
    /\ hilos = [h \in Hilos |-> Ocioso]
    /\ temporizadores = 0
    /\ evento = SinEvento
    /\ notificaciones = <<>>
    /\ sesion = "login"
    /\ reloj = 0
    /\ irrigation_schedule \in ArchivosHorario
    /\ hilo_riego = HiloRiegoInicial
    /\ llamadas_tk = <<>>
    /\ riegos = <<>>
    /\ comandos_bomba = <<>>

\* AuthWindow.login succeeds and calls show_main_app: the widgets, the
\* MQTT client, the readings of the sliders, the first actualizar_gui
Login ==
    /\ sesion = "login"
    /\ sesion' = "principal"
    /\ lecturas_actuales' = LecturasPorDefecto
    /\ temporizadores' = temporizadores + 1
    /\ UNCHANGED <<planta, sensor_ranges, llamada, pasos, ensayo, vars_config, hilos,
                   evento, notificaciones, reloj, irrigation_schedule, hilo_riego,
                   llamadas_tk, riegos, comandos_bomba>>

\* the button "Anadir Horario": a valid hour and a duration of 1..60 append
\* an entry that keeps the hour as it was typed; anything else shows an
\* error and changes nothing
AnadirHorarioRiego ==
    \E time_str \in TextosHora, duration_str \in TextosDuracion :
        /\ sesion = "principal"
        /\ Len(irrigation_schedule) < MaxHorarios
        /\ IF /\ HoraYMinuto[time_str].hour \in 0..23
              /\ HoraYMinuto[time_str].minute \in 0..59
              /\ int(duration_str).ok
              /\ int(duration_str).v \in 1..60
           THEN irrigation_schedule' =
                    Append(irrigation_schedule,
                           Horario(time_str, int(duration_str).v, reloj))
           ELSE UNCHANGED irrigation_schedule
        /\ UNCHANGED <<planta, sensor_ranges, llamada, pasos, ensayo, vars_config, vars_app,
                       sesion, reloj, hilo_riego, llamadas_tk, riegos, comandos_bomba>>

\* one pass of the loop of verificar_riego_programado in a minute it has
\* not checked yet: the for loop binds schedule_duration entry by entry and
\* stops at the first entry whose time is the clock's; for that entry it
\* asks the main loop to call ejecutar_riego(schedule_duration), the
\* lambda reading schedule_duration when it runs, and sleeps for the
\* duration and 35 seconds more, which ends in the minute the irrigation
\* ends or in the next one
VerificarRiegoProgramado ==
    /\ hilo_riego.pc = "sondeo"
    /\ hilo_riego.last_check_minute # reloj
    /\ LET coinciden == Coinciden(irrigation_schedule, reloj)
           primero == CHOOSE i \in coinciden : \A j \in coinciden : i <= j
       IN  IF coinciden # {}
           THEN /\ llamadas_tk' =
                       Append(llamadas_tk, [entrada |-> primero, minuto |-> reloj])
                /\ \E resto \in {0, 1} :
                       hilo_riego' =
                           [pc |-> "durmiendo",
                            last_check_minute |-> 0 - 1,
                            schedule_duration |-> irrigation_schedule[primero].duration,
                            despierta |->
                                reloj + irrigation_schedule[primero].duration + resto]
           ELSE /\ hilo_riego' =
                       [hilo_riego EXCEPT
                           !.last_check_minute = reloj,
                           !.schedule_duration =
                               IF irrigation_schedule = <<>> THEN @
                               ELSE irrigation_schedule[Len(irrigation_schedule)].duration]
                /\ UNCHANGED llamadas_tk
    /\ UNCHANGED <<planta, sensor_ranges, llamada, pasos, ensayo, vars_config, vars_app,
                   sesion, reloj, irrigation_schedule, riegos, comandos_bomba>>

\* the sleep after a match is over: the thread leaves the for loop and
\* polls again
Despertar ==
    /\ hilo_riego.pc = "durmiendo"
    /\ reloj >= hilo_riego.despierta
    /\ hilo_riego' = [hilo_riego EXCEPT !.pc = "sondeo"]
    /\ UNCHANGED <<planta, sensor_ranges, llamada, pasos, ensayo, vars_config, vars_app,
                   sesion, reloj, irrigation_schedule, llamadas_tk, riegos, comandos_bomba>>

\* the main loop runs the callback of the thread: ejecutar_riego shows its
\* notice, calls controlar_bomba("ON") and then schedules
\* controlar_bomba("OFF"); when controlar_bomba raises, the handler ends
\* there and no OFF is scheduled.  riegos keeps, for each run, the trigger
\* it came from, the duration it used, whether ON was published, the
\* minute its OFF is due (-1: none scheduled) and whether OFF was published
EjecutarRiego ==
    /\ llamadas_tk # <<>>
    /\ llamadas_tk' = Tail(llamadas_tk)
    /\ comandos_bomba' = controlar_bomba(comandos_bomba, "ON", sesion)
    /\ LET duracion_minutos == hilo_riego.schedule_duration
           publicado == comandos_bomba'[Len(comandos_bomba')].cliente
       IN  riegos' =
               Append(riegos,
                      [entrada |-> Head(llamadas_tk).entrada,
                       minuto |-> Head(llamadas_tk).minuto,
                       duracion |-> duracion_minutos,
                       on |-> publicado,
                       vence |-> IF publicado THEN reloj + duracion_minutos ELSE 0 - 1,
                       off |-> FALSE])
    /\ UNCHANGED <<planta, sensor_ranges, llamada, pasos, ensayo, vars_config, vars_app,
                   sesion, reloj, irrigation_schedule, hilo_riego>>

\* the callback ejecutar_riego scheduled is due: controlar_bomba("OFF")
ApagarBomba ==
    \E i \in 1..Len(riegos) :
        /\ riegos[i].vence >= 0
        /\ ~riegos[i].off
        /\ reloj >= riegos[i].vence
        /\ comandos_bomba' = controlar_bomba(comandos_bomba, "OFF", sesion)
        /\ riegos' = [riegos EXCEPT
                         ![i].off = comandos_bomba'[Len(comandos_bomba')].cliente,
                         ![i].vence = 0 - 1]
        /\ UNCHANGED <<planta, sensor_ranges, llamada, pasos, ensayo, vars_config, vars_app,
                       sesion, reloj, irrigation_schedule, hilo_riego, llamadas_tk>>

\* the buttons "Bomba ON" and "Bomba OFF" of the main window
BotonBomba ==
    \E comando \in {"ON", "OFF"} :
        /\ sesion = "principal"
        /\ Len(comandos_bomba) < MaxComandos
        /\ comandos_bomba' = controlar_bomba(comandos_bomba, comando, sesion)
        /\ UNCHANGED <<planta, sensor_ranges, llamada, pasos, ensayo, vars_config, vars_app,
                       sesion, reloj, irrigation_schedule, hilo_riego, llamadas_tk, riegos>>

\* the wall clock reaches the next minute
Tic ==
    /\ reloj < MaxReloj
    /\ HiloAlDia(hilo_riego, reloj)
    /\ llamadas_tk = <<>>
    /\ \A i \in 1..Len(riegos) : riegos[i].vence >= 0 => reloj < riegos[i].vence
    /\ reloj' = reloj + 1
    /\ UNCHANGED <<planta, sensor_ranges, llamada, pasos, ensayo, vars_config, vars_app,
                   sesion, irrigation_schedule, hilo_riego, llamadas_tk, riegos,
                   comandos_bomba>>

NextRiego ==
    \/ Login
    \/ AnadirHorarioRiego
    \/ VerificarRiegoProgramado
    \/ Despertar
    \/ EjecutarRiego
    \/ ApagarBomba
    \/ BotonBomba
    \/ Tic

SpecRiego == InitRiego /\ [][NextRiego]_vars

-----------------------------------------------------------------------------
(* Readings and stages the properties speak about *)

TodoIdeal   == [temperatura |-> <<25>>, humedad_aire |-> <<70>>,
                humedad_suelo |-> <<500>>, luz |-> <<500>>]
TodoLetal   == [temperatura |-> <<5>>, humedad_aire |-> <<20>>,
                humedad_suelo |-> <<1000>>, luz |-> <<900>>]
TodoAusente == [f \in Factores |-> None]

\* the stage table of the specification: a function of age and is_dead
EtapaDeEdad(edad, muerta) ==
    IF muerta THEN "Muerta"
    ELSE IF edad >= 100 * UnDia THEN "Fructificacion"
    ELSE IF edad >= 70 * UnDia THEN "Floracion"
    ELSE IF edad >= 40 * UnDia THEN "Madura"
    ELSE IF edad >= 15 * UnDia THEN "Joven"
    ELSE IF edad >= 5 * UnDia THEN "Brote"
    ELSE "Semilla"

\* Semilla < Brote < Joven < Madura < Floracion < Fructificacion
OrdenEtapa(e) ==
    CASE e = "Semilla" -> 0
      [] e = "Brote" -> 1
      [] e = "Joven" -> 2
      [] e = "Madura" -> 3
      [] e = "Floracion" -> 4
      [] e = "Fructificacion" -> 5
      [] OTHER -> 6

-----------------------------------------------------------------------------
(* C1: after any sequence of simular_crecimiento calls on a default plant,
   0 <= salud <= 100 and 0.2 <= altura_cm <= altura_maxima_cm. *)
C1_SaludYAlturaAcotadas ==
    /\ 0 <= planta.salud /\ planta.salud <= 100 * UnPorciento
    /\ UnCm \div 5 <= planta.altura_cm
    /\ planta.altura_cm <= planta.altura_maxima_cm

\* a dead plant withered down to the floor of 0.2 cm
C1_Testigo ==
    /\ llamada.hecha /\ llamada.estaba_muerta /\ llamada.dias > 0
    /\ planta.altura_cm = UnCm \div 5

(* C2: death is a one-way latch: once esta_muerta is true it stays true after
   every later simular_crecimiento call, whatever the days and readings. *)
C2_MuerteEsCerrojo == [][planta.esta_muerta => planta'.esta_muerta]_vars

\* a dead plant stepped for 120 days in a perfectly ideal environment
C2_Testigo ==
    /\ llamada.hecha /\ llamada.estaba_muerta
    /\ llamada.lecturas = TodoIdeal /\ llamada.dias = 120 * UnDia
    /\ planta.esta_muerta

(* C3: after every simular_crecimiento call the growth stage is the function
   of (age, is_dead) given by the stage table. *)
C3_EtapaFuncionDeEdad ==
    llamada.hecha =>
        planta.etapa_crecimiento = EtapaDeEdad(planta.edad_dias, planta.esta_muerta)

(* C4: a call with elapsed days = 0 leaves age, height, health, is_dead and
   growth stage unchanged. *)
C4_CeroDiasNoCambia == [][llamada'.dias = 0 => planta' = planta]_vars

(* C5: while the plant is alive the stage never moves backwards in the order
   Semilla < Brote < Joven < Madura < Floracion < Fructificacion. *)
C5_EtapaNoRetrocede ==
    [][(~planta.esta_muerta /\ ~planta'.esta_muerta) =>
          OrdenEtapa(planta'.etapa_crecimiento) >= OrdenEtapa(planta.etapa_crecimiento)]_vars

(* C6: a call on a plant that is already dead changes no field other than
   height, and height becomes max(0.2, height - 0.05 * elapsed_days). *)
C6_PasoDePlantaMuerta ==
    [][planta.esta_muerta =>
          planta' = [planta EXCEPT !.altura_cm =
                        Max(2000, planta.altura_cm - 5 * llamada'.dias)]]_vars

\* a dead plant lost height in a call, before reaching the floor
C6_Testigo ==
    /\ llamada.hecha /\ llamada.estaba_muerta /\ llamada.dias = 10
    /\ planta.altura_cm > UnCm \div 5

-----------------------------------------------------------------------------
(* The health and height laws, as the properties state them *)

\* arithmetic mean of the four factor scores of a readings map
MediaDeCuatro(lecturas, rangos) ==
    LET t == PuntuacionDe("temperatura", lecturas, rangos)
        a == PuntuacionDe("humedad_aire", lecturas, rangos)
        u == PuntuacionDe("humedad_suelo", lecturas, rangos)
        z == PuntuacionDe("luz", lecturas, rangos)
    IN  Frac(t.n * a.d * u.d * z.d + a.n * t.d * u.d * z.d
               + u.n * t.d * a.d * z.d + z.n * t.d * a.d * u.d,
             4 * t.d * a.d * u.d * z.d)

\* clamp(health + (environment_score - 0.5) * 50 * elapsed_days, 0, 100)
SaludEsperada(p, dias, lecturas, rangos) ==
    LET m == MediaDeCuatro(lecturas, rangos)
        h == p.salud + ((2 * m.n - m.d) * 25 * 16 * dias) \div (m.d * 100)
    IN  IF h < 0 THEN 0 ELSE IF h > 1600 THEN 1600 ELSE h

\* clamp(height + 0.4125 * environment_score * (salud / 100) * elapsed_days,
\*       0.5, max_height)
AlturaEsperada(p, salud, dias, lecturas, rangos) ==
    LET m == MediaDeCuatro(lecturas, rangos)
        r == Frac(4125 * m.n * salud, m.d * 1600)
        h == p.altura_cm + MulDiv(r.n, dias, r.d * 100)
    IN  IF h < 5000 THEN 5000
        ELSE IF h > p.altura_maxima_cm THEN p.altura_maxima_cm ELSE h

(* C7: in a step on a living plant, if the clamped health after the health
   update is <= 0.1 the plant dies in that step: is_dead becomes true, health
   exactly 0, stage Dead, height max(0.2, height_before * 0.9); no height
   growth and no age-based stage update is applied. *)
C7_MuerteEnElPaso ==
    [][(/\ ~planta.esta_muerta
        /\ 10 * SaludEsperada(planta, llamada'.dias, llamada'.lecturas,
                               sensor_ranges) <= 16)
       => (/\ planta'.esta_muerta
           /\ planta'.salud = 0
           /\ planta'.etapa_crecimiento = "Muerta"
           /\ planta'.altura_cm = Max(2000, (planta.altura_cm * 9) \div 10))]_vars

\* the default plant stepped 5.33 days at environment score 1/8: the health
\* update leaves 0.0625, which is above 0 and not above 0.1
C7_Testigo ==
    /\ pasos = 1 /\ llamada.dias = 533
    /\ MediaDeCuatro(llamada.lecturas, sensor_ranges) = Frac(1, 8)
    /\ planta.esta_muerta /\ planta.salud = 0

(* C8 as stated: in a step on a living plant the new health equals
   clamp(health + (environment_score - 0.5) * 50 * elapsed_days, 0, 100). *)
C8_SaludNuevaEsLaSujetada ==
    [][~planta.esta_muerta =>
          planta'.salud = SaludEsperada(planta, llamada'.dias, llamada'.lecturas,
                                        sensor_ranges)]_vars

(* C8 amended: in a step on a living plant the new health equals
   clamp(health + (environment_score - 0.5) * 50 * elapsed_days, 0, 100) when
   that value is above 0.1, and 0 otherwise; an environment score of exactly
   0.5 leaves the health unchanged. *)
C8_SaludNueva ==
    [][~planta.esta_muerta =>
          LET h == SaludEsperada(planta, llamada'.dias, llamada'.lecturas,
                                 sensor_ranges)
          IN  /\ planta'.salud = IF 10 * h <= 16 THEN 0 ELSE h
              /\ MediaDeCuatro(llamada'.lecturas, sensor_ranges) = Frac(1, 2)
                    => planta'.salud = planta.salud]_vars

\* a living plant below full health gained health in an ideal environment
\* without reaching the upper clamp
C8_Testigo ==
    /\ llamada.hecha /\ ~llamada.estaba_muerta /\ ~planta.esta_muerta
    /\ llamada.lecturas = TodoIdeal /\ llamada.dias = 10
    /\ planta.salud < 100 * UnPorciento

(* C9: in a step in which the plant stays alive the new height equals
   clamp(height + 0.4125 * environment_score * (new_health / 100) *
   elapsed_days, 0.5, max_height), with the health already updated in this
   step; no height growth is applied in a step in which the plant is or
   becomes dead. *)
C9_AlturaNueva ==
    [][/\ (~planta.esta_muerta /\ ~planta'.esta_muerta)
          => planta'.altura_cm =
                AlturaEsperada(planta, planta'.salud, llamada'.dias,
                               llamada'.lecturas, sensor_ranges)
       /\ planta'.esta_muerta => planta'.altura_cm <= planta.altura_cm]_vars

\* the default plant lost health and grew in the same step
C9_Testigo ==
    /\ pasos = 1 /\ ~planta.esta_muerta
    /\ planta.salud < 100 * UnPorciento
    /\ planta.altura_cm > UnCm \div 2
    /\ planta.altura_cm < planta.altura_maxima_cm

(* C10: for every value, present or absent, and every range with
   letal_min <= ideal_min <= ideal_max <= letal_max, the score of
   obtener_puntuacion_factor is in [0, 1], and so is the mean of the four
   factor scores. *)
C10_PuntuacionEnCeroUno ==
    (ensayo.hecho /\ \A f \in Factores : RangoOrdenado(sensor_ranges[f]))
        => /\ ensayo.puntuacion.d > 0
           /\ 0 <= ensayo.puntuacion.n
           /\ ensayo.puntuacion.n <= ensayo.puntuacion.d

\* the mean over an interpolated temperature score of 1/2 and three ideal
\* readings
C10_Testigo ==
    /\ ensayo.hecho /\ ensayo.factor = "todos"
    /\ \A f \in Factores : RangoOrdenado(sensor_ranges[f])
    /\ ensayo.lecturas.temperatura # None
    /\ PuntuacionDe("temperatura", ensayo.lecturas, sensor_ranges) = Frac(1, 2)
    /\ ensayo.puntuacion = Frac(7, 8)

-----------------------------------------------------------------------------
(* One evaluation of obtener_puntuacion_factor on a numeric reading *)

EnsayoDeValor ==
    /\ ensayo.hecho /\ ensayo.factor \in Factores
    /\ ensayo.lecturas[ensayo.factor] # None

ValorEnsayado == ensayo.lecturas[ensayo.factor][1]

RangoEnsayado == sensor_ranges[ensayo.factor]

\* an ordered range whose two tolerance bands have a width
RangoEstricto(r) ==
    r.letal_min < r.ideal_min /\ r.ideal_min <= r.ideal_max /\ r.ideal_max < r.letal_max

(* C11: for every ordered range and every value with
   ideal_min <= value <= ideal_max, bounds included, the score is exactly 1,
   also when the ideal range touches a lethal bound. *)
C11_IdealEsUno ==
    (/\ EnsayoDeValor /\ RangoOrdenado(RangoEnsayado)
     /\ RangoEnsayado.ideal_min <= ValorEnsayado
     /\ ValorEnsayado <= RangoEnsayado.ideal_max)
        => ensayo.puntuacion = Frac(1, 1)

\* the value on the lower ideal bound, which is the lower lethal bound too
C11_Testigo ==
    /\ EnsayoDeValor /\ RangoOrdenado(RangoEnsayado)
    /\ RangoEnsayado.ideal_min = RangoEnsayado.letal_min
    /\ RangoEnsayado.ideal_max < RangoEnsayado.letal_max
    /\ ValorEnsayado = RangoEnsayado.ideal_min
    /\ ensayo.puntuacion = Frac(1, 1)

(* C12: for every value below letal_min or above letal_max the score is
   exactly 0, whatever the range. *)
C12_FueraDeLetalEsCero ==
    (/\ EnsayoDeValor
     /\ \/ ValorEnsayado < RangoEnsayado.letal_min
        \/ ValorEnsayado > RangoEnsayado.letal_max)
        => ensayo.puntuacion = Frac(0, 1)

\* a value above the upper lethal bound of an ordered range with a band
C12_Testigo ==
    /\ EnsayoDeValor /\ RangoEstricto(RangoEnsayado)
    /\ ValorEnsayado > RangoEnsayado.letal_max
    /\ ensayo.puntuacion = Frac(0, 1)

(* C13: inside the tolerance bands of an ordered range the score is the
   linear interpolation: (value - letal_min) / (ideal_min - letal_min) for
   letal_min <= value < ideal_min, and
   1 - (value - ideal_max) / (letal_max - ideal_max) for
   ideal_max < value <= letal_max. *)
C13_InterpolacionLineal ==
    (EnsayoDeValor /\ RangoOrdenado(RangoEnsayado)) =>
        /\ (RangoEnsayado.letal_min <= ValorEnsayado
              /\ ValorEnsayado < RangoEnsayado.ideal_min)
            => /\ ensayo.puntuacion.d > 0
               /\ ensayo.puntuacion.n * (RangoEnsayado.ideal_min - RangoEnsayado.letal_min)
                    = ensayo.puntuacion.d * (ValorEnsayado - RangoEnsayado.letal_min)
        /\ (RangoEnsayado.ideal_max < ValorEnsayado
              /\ ValorEnsayado <= RangoEnsayado.letal_max)
            => /\ ensayo.puntuacion.d > 0
               /\ (ensayo.puntuacion.d - ensayo.puntuacion.n)
                        * (RangoEnsayado.letal_max - RangoEnsayado.ideal_max)
                    = ensayo.puntuacion.d * (ValorEnsayado - RangoEnsayado.ideal_max)

\* value 15 with ideal 20..28 and lethal 10..35 scores 0.5
C13_Testigo ==
    /\ EnsayoDeValor /\ ensayo.factor = "temperatura"
    /\ RangoEnsayado = [ideal_min |-> 20, ideal_max |-> 28,
                        letal_min |-> 10, letal_max |-> 35]
    /\ ValorEnsayado = 15
    /\ ensayo.puntuacion = Frac(1, 2)

(* C14, as stated: for every ordered range the score is 0 at letal_min and
   at letal_max, and one unit away from ideal_min or ideal_max it is one
   slope step away from 1. *)
C14_SinSaltosEnTodoRangoOrdenado ==
    (EnsayoDeValor /\ RangoOrdenado(RangoEnsayado)) =>
        /\ (ValorEnsayado = RangoEnsayado.letal_min \/ ValorEnsayado = RangoEnsayado.letal_max)
            => ensayo.puntuacion = Frac(0, 1)
        /\ (RangoEnsayado.letal_min < RangoEnsayado.ideal_min
              /\ ValorEnsayado = RangoEnsayado.ideal_min - 1)
            => ensayo.puntuacion =
                   Frac(RangoEnsayado.ideal_min - RangoEnsayado.letal_min - 1,
                        RangoEnsayado.ideal_min - RangoEnsayado.letal_min)
        /\ (RangoEnsayado.ideal_max < RangoEnsayado.letal_max
              /\ ValorEnsayado = RangoEnsayado.ideal_max + 1)
            => ensayo.puntuacion =
                   Frac(RangoEnsayado.letal_max - RangoEnsayado.ideal_max - 1,
                        RangoEnsayado.letal_max - RangoEnsayado.ideal_max)

(* C14: for every ordered range whose tolerance bands have a width
   (letal_min < ideal_min and ideal_max < letal_max) the score has no jump
   at the four bounds: it is 0 at letal_min and at letal_max, and one unit
   away from ideal_min or ideal_max it is one slope step away from 1. *)
C14_SinSaltos ==
    (EnsayoDeValor /\ RangoEstricto(RangoEnsayado)) =>
        /\ (ValorEnsayado = RangoEnsayado.letal_min \/ ValorEnsayado = RangoEnsayado.letal_max)
            => ensayo.puntuacion = Frac(0, 1)
        /\ ValorEnsayado = RangoEnsayado.ideal_min - 1
            => ensayo.puntuacion =
                   Frac(RangoEnsayado.ideal_min - RangoEnsayado.letal_min - 1,
                        RangoEnsayado.ideal_min - RangoEnsayado.letal_min)
        /\ ValorEnsayado = RangoEnsayado.ideal_max + 1
            => ensayo.puntuacion =
                   Frac(RangoEnsayado.letal_max - RangoEnsayado.ideal_max - 1,
                        RangoEnsayado.letal_max - RangoEnsayado.ideal_max)

\* the value on the lower lethal bound of a range whose lower band is two
\* units wide
C14_Testigo ==
    /\ EnsayoDeValor /\ RangoEstricto(RangoEnsayado)
    /\ RangoEnsayado.ideal_min = RangoEnsayado.letal_min + 2
    /\ ValorEnsayado = RangoEnsayado.letal_min
    /\ ensayo.puntuacion = Frac(0, 1)

(* C15: an absent reading scores exactly 0.5 for every range, ordered or
   not, and so the mean of four absent readings is 0.5. *)
C15_AusenteEsUnMedio ==
    /\ (ensayo.hecho /\ ensayo.factor \in Factores
          /\ ensayo.lecturas[ensayo.factor] = None)
        => ensayo.puntuacion = Frac(1, 2)
    /\ (ensayo.hecho /\ ensayo.factor = "todos" /\ ensayo.lecturas = TodoAusente)
        => ensayo.puntuacion = Frac(1, 2)

\* an absent temperature scored against a range that is not ordered
C15_Testigo ==
    /\ ensayo.hecho /\ ensayo.factor = "temperatura"
    /\ ensayo.lecturas.temperatura = None
    /\ ~RangoOrdenado(sensor_ranges.temperatura)
    /\ ensayo.puntuacion = Frac(1, 2)

(* C16: for every numeric value and every range, ordered or not, zero-width
   tolerance bands included, obtener_puntuacion_factor divides by no zero:
   its result is a number. *)
C16_SinDivisionPorCero ==
    EnsayoDeValor =>
        (ensayo.puntuacion # ZeroDivisionError /\ ensayo.puntuacion.d # 0)

\* a value below the ideal range of a range with ideal_min = letal_min
C16_Testigo ==
    /\ EnsayoDeValor
    /\ RangoEnsayado.ideal_min = RangoEnsayado.letal_min
    /\ ValorEnsayado < RangoEnsayado.ideal_min
    /\ ensayo.puntuacion = Frac(0, 1)

-----------------------------------------------------------------------------
(* C17: in every reachable state each of the four entries of sensor_ranges
   is ordered, letal_min <= ideal_min <= ideal_max <= letal_max, whether it
   comes from the built-in ranges, from load_config or from
   guardar_nuevos_rangos. *)
C17_RangosSiempreOrdenados ==
    \A f \in Factores : RangoOrdenado(sensor_ranges[f])

(* C18: guardar_nuevos_rangos commits all or nothing: when the entries of
   any sensor are not numeric or not ordered, sensor_ranges stays as it was
   for the four sensors and config.json is not written; when the four
   sensors validate, sensor_ranges holds the entered ranges and config.json
   is written with them. *)
C18_TodoONada ==
    [][formulario'.n = formulario.n + 1 =>
          IF \A f \in Factores : EntradaAceptada(formulario'.entradas[f])
          THEN /\ sensor_ranges' =
                     [f \in Factores |-> RangoDeEntradas(formulario'.entradas[f])]
               /\ config_json'.escrituras = config_json.escrituras + 1
               /\ config_json'.objeto = [sensor_ranges |-> sensor_ranges']
          ELSE /\ sensor_ranges' = sensor_ranges
               /\ config_json' = config_json]_vars

\* a form rejected at its last sensor, the first three being acceptable:
\* the ranges are the built-in ones and nothing was written
C18_Testigo ==
    /\ formulario.n = 1
    /\ EntradaAceptada(formulario.entradas.temperatura)
    /\ EntradaAceptada(formulario.entradas.humedad_aire)
    /\ EntradaAceptada(formulario.entradas.humedad_suelo)
    /\ ~EntradaAceptada(formulario.entradas.luz)
    /\ sensor_ranges = RangosPorDefecto
    /\ config_json.escrituras = 0

-----------------------------------------------------------------------------
(* C19: the periodic tick and the manual advance never run
   simular_crecimiento on the plant at the same time: at most one step is
   in progress, and the plant it read is still the plant, so its result is
   computed from no stale value; MQTT messages arrive meanwhile. *)
C19_PasosEnSerie ==
    /\ Cardinality({h \in Hilos : hilos[h] # Ocioso}) <= 1
    /\ \A h \in Hilos : hilos[h] # Ocioso => hilos[h].leida = planta

\* a manual advance is inside its step while a tick is pending and an MQTT
\* message has changed the readings since the step read them
C19_Testigo ==
    /\ hilos["tk"].manejador = "avanzar_dias_simulacion"
    /\ temporizadores > 0
    /\ hilos["tk"].lecturas # lecturas_actuales

(* C20: when reiniciar_planta returns, the plant has every attribute at its
   default value (Semilla, age 0, height 0.5, health 100, alive), whatever
   the plant was before; nothing has been advanced. *)
C20_ReinicioDejaPlantaPorDefecto ==
    evento.manejador = "reiniciar_planta" => planta = Planta

-----------------------------------------------------------------------------
(* The first call on the fresh plant, with every factor inside its ideal
   range *)

PrimerPasoIdeal(dias) ==
    /\ pasos = 1 /\ llamada.hecha /\ llamada.dias = dias
    /\ \A f \in Factores :
          /\ llamada.lecturas[f] # None
          /\ PuntuacionDe(f, llamada.lecturas, sensor_ranges) = Frac(1, 1)

(* C21, as stated: a fresh plant stepped once by 120 days with the four
   readings ideal ends with a height of 49.9 cm, to the 0.1 cm, and in
   stage Fructificacion. *)
C21_CientoVeinteDiasDan49_9 ==
    PrimerPasoIdeal(120 * UnDia) =>
        /\ 10 * planta.altura_cm >= 4985 * (UnCm \div 10)
        /\ 10 * planta.altura_cm < 4995 * (UnCm \div 10)
        /\ planta.etapa_crecimiento = "Fructificacion"

(* C21: a fresh plant stepped once by 120 days with the four readings ideal
   ends with height 0.5 + 0.4125 * 1.0 * 1.0 * 120 = 50.0 cm, which is
   altura_maxima_cm, with health 100 and age 120, and in stage
   Fructificacion, reached in that single step from Semilla. *)
C21_CientoVeinteDias ==
    PrimerPasoIdeal(120 * UnDia) =>
        /\ planta.altura_cm = UnCm \div 2 + tasa_crecimiento_base_cm_por_dia * 120
        /\ planta.altura_cm = planta.altura_maxima_cm
        /\ planta.salud = 100 * UnPorciento
        /\ planta.edad_dias = 120 * UnDia
        /\ planta.etapa_crecimiento = "Fructificacion"

\* the fresh plant after that step
C21_Testigo ==
    /\ PrimerPasoIdeal(120 * UnDia)
    /\ llamada.lecturas = TodoIdeal
    /\ planta.etapa_crecimiento = "Fructificacion"
    /\ planta.altura_cm = 50 * UnCm

(* C22: a step on a plant that is alive when it starts adds exactly the
   elapsed days to the age, also when the plant dies in that step, so the
   age never decreases; a step on a dead plant leaves the age as it is. *)
C22_EdadSumaLosDias ==
    [][/\ ~planta.esta_muerta => planta'.edad_dias = planta.edad_dias + llamada'.dias
       /\ planta.esta_muerta => planta'.edad_dias = planta.edad_dias
       /\ planta'.edad_dias >= planta.edad_dias]_vars

\* the plant died in its second step, of 120 days, and is as old as the
\* two steps together
C22_Testigo ==
    /\ pasos = 2 /\ llamada.hecha /\ ~llamada.estaba_muerta
    /\ planta.esta_muerta
    /\ llamada.dias = 120 * UnDia
    /\ planta.edad_dias > 120 * UnDia

(* C24: in every state reached from the default plant the three signs of
   death agree: esta_muerta holds exactly when salud is 0 and exactly when
   the stage is Muerta; a living plant has salud above 0.1. *)
C24_IndicadoresDeMuerte ==
    /\ planta.esta_muerta <=> planta.salud = 0
    /\ planta.esta_muerta <=> planta.etapa_crecimiento = "Muerta"
    /\ ~planta.esta_muerta => 10 * planta.salud > UnPorciento

\* a plant that died with a clamped health of 0.0625, above 0
C24_Testigo ==
    /\ pasos = 1 /\ llamada.hecha /\ planta.esta_muerta
    /\ SaludSumada(Planta.salud, puntuacion_ambiente_promedio(llamada.lecturas, sensor_ranges),
                   llamada.dias) = 1
    /\ planta.salud = 0 /\ planta.etapa_crecimiento = "Muerta"

(* C25: with elapsed days >= 0, the height of a plant that stays alive
   never decreases and is at least 0.5 cm; from the step in which the plant
   dies on, the height never increases. *)
C25_AlturaMonotona ==
    [][/\ ~planta'.esta_muerta =>
            (planta'.altura_cm >= planta.altura_cm /\ 2 * planta'.altura_cm >= UnCm)
       /\ planta'.esta_muerta => planta'.altura_cm <= planta.altura_cm]_vars

\* a plant that had grown, died, and has withered below the height it had
\* reached
C25_Testigo ==
    /\ pasos = 2 /\ llamada.hecha /\ ~llamada.estaba_muerta /\ llamada.dias > 0
    /\ planta.esta_muerta
    /\ 2 * planta.altura_cm > UnCm

-----------------------------------------------------------------------------
(* C23: after the main window is shown at most one actualizar_gui callback
   is pending in the timer queue, for any sequence of ticks, manual advances
   and resets. *)
C23_UnSoloTemporizador == temporizadores <= 1

(* C26: every call of simular_crecimiento made by the application has a
   strictly positive elapsed time, and the button "Avanzar" with an entry
   that is zero, negative or not a number leaves the plant as it is. *)
C26_DiasPositivos ==
    [][/\ \A h \in Hilos : hilos'[h] # Ocioso => hilos'[h].dias > 0
       /\ (/\ evento' # evento
            /\ evento'.manejador = "avanzar_dias_simulacion"
            /\ ~(float(evento'.entrada).ok /\ float(evento'.entrada).v > 0))
           => (planta' = planta /\ hilos' = hilos /\ pasos' = pasos)]_vars

\* "Avanzar" with a negative number, after the plant had been stepped twice
C26_Testigo ==
    /\ evento = [manejador |-> "avanzar_dias_simulacion", entrada |-> "-1"]
    /\ pasos = 2
    /\ planta.edad_dias > 0

-----------------------------------------------------------------------------
(* C30: the alert list actualizar_gui derives holds the notification of a
   factor exactly when the reading of the factor is present and strictly
   outside [letal_min, letal_max] of sensor_ranges, and then
   obtener_puntuacion_factor scores the reading 0; when the plant is dead
   the list is the death warning alone. *)
C30_ListaDeAlertas ==
    [][(\E h \in Hilos : hilos[h] # Ocioso /\ hilos'[h] = Ocioso) =>
          IF planta'.esta_muerta
          THEN notificaciones' = <<AvisoDeMuerte>>
          ELSE \A f \in Factores :
                   /\ (\E i \in 1..Len(notificaciones') : notificaciones'[i] = AvisoDe[f])
                       <=> /\ lecturas_actuales'[f] # None
                           /\ \/ lecturas_actuales'[f][1] < sensor_ranges[f].letal_min
                              \/ lecturas_actuales'[f][1] > sensor_ranges[f].letal_max
                   /\ (\E i \in 1..Len(notificaciones') : notificaciones'[i] = AvisoDe[f])
                       => PuntuacionDe(f, lecturas_actuales', sensor_ranges) = Frac(0, 1)]_vars

\* a living plant with the temperature below the lethal range and the air
\* humidity on letal_min: the list has the temperature alert and no air
\* alert, although the air reading scores 0 too
C30_Testigo ==
    /\ ~planta.esta_muerta /\ evento.manejador = "actualizar_gui"
    /\ \A h \in Hilos : hilos[h] = Ocioso
    /\ lecturas_actuales.temperatura = <<5>>
    /\ lecturas_actuales.humedad_aire = <<30>>
    /\ PuntuacionDe("humedad_aire", lecturas_actuales, sensor_ranges) = Frac(0, 1)
    /\ notificaciones = <<AvisoDe.temperatura>>

\* C27: controlar_bomba is called only once show_main_app has created
\* cliente_mqtt_gui, whether a pump button or a scheduled irrigation calls
\* it: every call recorded in comandos_bomba found the client.
C27_BombaSoloConCliente ==
    \A i \in 1..Len(comandos_bomba) : comandos_bomba[i].cliente

\* C28: every irrigation ejecutar_riego started has published ON, used the
\* duration of the entry that matched, and has its OFF either published or
\* scheduled (the clock does not pass the minute a scheduled OFF is due).
C28_RiegoEnciendeYApaga ==
    \A i \in 1..Len(riegos) :
        /\ riegos[i].on
        /\ riegos[i].duracion = irrigation_schedule[riegos[i].entrada].duration
        /\ riegos[i].off \/ riegos[i].vence >= 0

\* the triggers of entry i in minute m: callbacks handed to the main loop
\* and irrigations it has started
Disparos(i, m) ==
    Cardinality({k \in 1..Len(llamadas_tk) :
                    llamadas_tk[k].entrada = i /\ llamadas_tk[k].minuto = m})
    + Cardinality({k \in 1..Len(riegos) :
                      riegos[k].entrada = i /\ riegos[k].minuto = m})

\* C29: for every entry of irrigation_schedule and every minute the clock
\* has passed that is the entry's HH:MM and came after the entry was added,
\* exactly one irrigation was triggered for that entry in that minute.
C29_CadaHorarioDispara ==
    \A i \in 1..Len(irrigation_schedule) :
        \A m \in 0..(reloj - 1) :
            (MinutoDe(irrigation_schedule[i].time) = m /\ irrigation_schedule[i].alta < m)
                => Disparos(i, m) = 1

====
